---- MODULE Spec2Model ----
(***************************************************************************)
(* OpenAI Conversation (Assistants API) integration for Home Assistant.    *)
(*                                                                         *)
(* Three handlers talk to the Assistants API:                              *)
(*   send_prompt          custom_components/openai_conversation_ass/       *)
(*                        __init__.py  (kind "send_prompt_cc")             *)
(*   send_prompt          src/__init__.py  (kind "send_prompt_root")       *)
(*   _async_handle_chat_log   conversation.py  (kind "handle_chat_log")    *)
(* and render_image (both __init__.py files, identical text) talks to the  *)
(* image endpoint.  A handler is a coroutine: one action of the model is   *)
(* the code from one await of a provider call to the next.  The provider   *)
(* (threads, runs, messages, image endpoint) is the environment.           *)
(***************************************************************************)
EXTENDS Integers, Sequences, FiniteSets, TLC

\* ------------------------------------------------------------ bounds
\* Requests that may be in flight together (SpecConc).
NumReq == 2
\* Chat-log entries between the system prompt and the current user input.
MaxHistory == 2
\* Assistant messages one run may add to its thread.
MaxReply == 2
\* Content segments one run may produce, over all its messages.
MaxParts == 2
\* Image descriptors in one image response.
MaxImages == 2

\* ------------------------------------------------------------ values
\* Python's None, where a string is expected.
None == "<None>"
\* The value of a request that has returned nothing (yet).
NoValue == <<>>

AllReqs == 1..NumReq

SeqsUpTo(S, n) == UNION {[1..k -> S] : k \in 0..n}

\* reversed(xs)
Reversed(xs) == [i \in 1..Len(xs) |-> xs[Len(xs) + 1 - i]]

\* A test for None alone, where the code tests truthiness.
FalsyStrNoneOnly(s) == s = None

\* `not s` for an optional string: None and "" are falsy.
FalsyStr(s) == s = None \/ s = ""

\* ------------------------------------------------------------ config entries
DOMAIN_NAME == "openai_conversation_ass"

\* hass.config_entries.async_get_entry(entry_id): the entries the host holds.
\* "e_unknown" is an id the host does not know.
EntryIds == {"e_ok", "e_noassist", "e_emptyassist", "e_other", "e_unknown"}

async_get_entry(entry_id) ==
  CASE entry_id = "e_ok" ->
         [found |-> TRUE, domain |-> DOMAIN_NAME, assistant_id |-> "asst_1"]
    [] entry_id = "e_noassist" ->
         [found |-> TRUE, domain |-> DOMAIN_NAME, assistant_id |-> None]
    [] entry_id = "e_emptyassist" ->
         [found |-> TRUE, domain |-> DOMAIN_NAME, assistant_id |-> ""]
    [] entry_id = "e_other" ->
         [found |-> TRUE, domain |-> "other_domain", assistant_id |-> "asst_9"]
    [] OTHER ->
         [found |-> FALSE, domain |-> None, assistant_id |-> None]

\* entry is None or entry.domain != DOMAIN
InvalidEntry(entry) == ~entry.found \/ entry.domain # DOMAIN_NAME

\* The entity is built by async_setup_entry from a config entry of this
\* integration, so self.entry is always one of the integration's own entries.
OwnEntryIds == {e \in EntryIds : ~InvalidEntry(async_get_entry(e))}

\* ------------------------------------------------------------ handlers
AssistantKinds == {"send_prompt_cc", "send_prompt_root", "handle_chat_log"}
ServiceKinds == {"send_prompt_cc", "send_prompt_root"}
ImageKinds == {"render_image_cc", "render_image_root"}
Kinds == AssistantKinds \cup ImageKinds

\* Whether the module of the handler imports asyncio: the name asyncio.sleep
\* resolves only if it does.
HasAsyncio(kind) == kind # "send_prompt_root"

\* ------------------------------------------------------------ chat log
SystemContent(c) ==
  [cls |-> "SystemContent", role |-> "system", content |-> c,
   tool_calls |-> <<>>, tool_call_id |-> None, tool_result |-> <<>>]
UserContent(c) ==
  [cls |-> "UserContent", role |-> "user", content |-> c,
   tool_calls |-> <<>>, tool_call_id |-> None, tool_result |-> <<>>]
AssistantContent(c, calls) ==
  [cls |-> "AssistantContent", role |-> "assistant", content |-> c,
   tool_calls |-> calls, tool_call_id |-> None, tool_result |-> <<>>]
ToolResultContent(id, result) ==
  [cls |-> "ToolResultContent", role |-> "tool_result", content |-> None,
   tool_calls |-> <<>>, tool_call_id |-> id, tool_result |-> result]

\* A tool call of an assistant entry; tool_args is a dict, held as a sequence
\* of <<key, value>> pairs.
ToolInput(id, name, args) == [id |-> id, tool_name |-> name, tool_args |-> args]

\* json.dumps of a dict of strings.
RECURSIVE JsonPairs(_)
JsonPairs(d) ==
  IF d = <<>> THEN ""
  ELSE "\"" \o d[1][1] \o "\": \"" \o d[1][2] \o "\""
       \o (IF Len(d) > 1 THEN ", " ELSE "") \o JsonPairs(Tail(d))
JsonDumps(d) == "{" \o JsonPairs(d) \o "}"

\* The three parameter shapes.  A TypedDict is a dict: only a "message" has
\* the key "content".
EasyInputMessageParam(role, content) ==
  [type |-> "message", role |-> role, content |-> content,
   call_id |-> None, name |-> None, payload |-> None]
FunctionCallOutput(call_id, output) ==
  [type |-> "function_call_output", role |-> None, content |-> None,
   call_id |-> call_id, name |-> None, payload |-> output]
ResponseFunctionToolCallParam(name, arguments, call_id) ==
  [type |-> "function_call", role |-> None, content |-> None,
   call_id |-> call_id, name |-> name, payload |-> arguments]

\* "content" in param
HasContentKey(param) == param.type = "message"

_convert_content_to_param(content) ==
  IF content.cls = "ToolResultContent"
  THEN <<FunctionCallOutput(content.tool_call_id, JsonDumps(content.tool_result))>>
  ELSE (IF ~FalsyStr(content.content)
        THEN <<EasyInputMessageParam(
                 IF content.role = "system" THEN "developer" ELSE content.role,
                 content.content)>>
        ELSE <<>>)
       \o (IF content.cls = "AssistantContent"
           THEN [i \in 1..Len(content.tool_calls) |->
                   ResponseFunctionToolCallParam(
                     content.tool_calls[i].tool_name,
                     JsonDumps(content.tool_calls[i].tool_args),
                     content.tool_calls[i].id)]
           ELSE <<>>)

\* [m for content in chat_log.content for m in _convert_content_to_param(content)]
RECURSIVE messages_content(_)
messages_content(log) ==
  IF log = <<>> THEN <<>>
  ELSE _convert_content_to_param(Head(log)) \o messages_content(Tail(log))

\* The chat logs _async_handle_message hands over: the system prompt, the
\* earlier entries of the conversation, and last the user's input.  In the
\* earlier entries an assistant entry with a tool call is followed by the
\* result of the call, and a tool result follows such an entry.
TheToolCall == ToolInput("call_1", "turn_on", <<<<"entity", "light">>>>)
HistoryEntries ==
  { UserContent("q"),
    AssistantContent("a", <<>>),
    AssistantContent("a", <<TheToolCall>>),
    AssistantContent(None, <<TheToolCall>>),
    ToolResultContent("call_1", <<<<"state", "on">>>>) }
ToolCallsPaired(h) ==
  \A i \in 1..Len(h) :
    /\ h[i].tool_calls # <<>> =>
         i < Len(h) /\ h[i + 1].cls = "ToolResultContent"
    /\ h[i].cls = "ToolResultContent" => i > 1 /\ h[i - 1].tool_calls # <<>>
ChatLogs ==
  { <<SystemContent("s")>> \o h \o <<UserContent("u")>> :
      h \in {x \in SeqsUpTo(HistoryEntries, MaxHistory) : ToolCallsPaired(x)} }

\* ------------------------------------------------------------ messages
\* A content segment of a thread message: part.type, and part.text.value of
\* a text segment.
TextPart(v) == [type |-> "text", text |-> v]
ImageFilePart == [type |-> "image_file", text |-> None]
PartSet == {TextPart("a"), TextPart("b"), ImageFilePart}

\* What a run may add to its thread: at most k assistant messages holding at
\* most p segments together, oldest first.
RECURSIVE Replies(_, _)
Replies(k, p) ==
  IF k = 0 THEN {<<>>}
  ELSE {<<>>} \cup
       UNION { { <<c>> \o rest : rest \in Replies(k - 1, p - Len(c)) } :
               c \in SeqsUpTo(PartSet, p) }

RunStatuses == {"queued", "in_progress", "completed", "failed", "cancelled", "expired"}
FailureStatuses == {"failed", "cancelled", "expired"}

\* sep.join(strs)
RECURSIVE Join(_, _)
Join(sep, strs) ==
  IF strs = <<>> THEN ""
  ELSE IF Len(strs) = 1 THEN strs[1]
  ELSE strs[1] \o sep \o Join(sep, Tail(strs))

\* [part.text.value for part in content if part.type == "text"]
IsTextPart(part) == part.type = "text"
text_parts(content) ==
  LET kept == SelectSeq(content, IsTextPart)
  IN  [i \in 1..Len(kept) |-> kept[i].text]

\* One separator for all three handlers.
SeparatorAllNewline(kind) == "\n"

\* The separator each handler joins the text segments with.
Separator(kind) == IF kind \in ServiceKinds THEN "\n" ELSE ""

\* next((m for m in reversed(messages.data) if m.role == "assistant"), None),
\* and the entity's for-loop with break: the first assistant entry of the
\* reversed list.  NoMessage stands for "none found".
NoMessage == [role |-> None, content |-> <<>>, created_at |-> 0]
RECURSIVE FirstAssistant(_)
FirstAssistant(ms) ==
  IF ms = <<>> THEN NoMessage
  ELSE IF Head(ms).role = "assistant" THEN Head(ms)
  ELSE FirstAssistant(Tail(ms))
last_message(data) == FirstAssistant(Reversed(data))

\* ------------------------------------------------------------ exceptions
\* An exception raised inside the handler's try block, as it leaves the
\* handler: send_prompt (custom_components) has `except Exception`, the other
\* two `except openai.OpenAIError`.
Reraise(kind, exc) ==
  IF exc = "OpenAIError" THEN "HomeAssistantError"
  ELSE IF kind = "send_prompt_cc" THEN "HomeAssistantError"
  ELSE exc

Pending == [state |-> "pending", exc |-> None, value |-> NoValue]
Raised(exc) == [state |-> "raised", exc |-> exc, value |-> NoValue]
Returned(v) == [state |-> "returned", exc |-> None, value |-> v]

\* ------------------------------------------------------------ images
\* One element of ImagesResponse.data.
Image(b64, url, revised) == [b64_json |-> b64, url |-> url, revised_prompt |-> revised]
ImageSet ==
  { Image(b, u, p) : b \in {None, "QUJD"}, u \in {None, "", "https://img/1"},
                     p \in {None, "rp"} }
\* response.data; None and [] are both falsy and both are the empty sequence.
ImageData == SeqsUpTo(ImageSet, MaxImages)

\* image.model_dump(exclude={"b64_json"})
model_dump_exclude_b64(image) ==
  [url |-> image.url, revised_prompt |-> image.revised_prompt]

\* ------------------------------------------------------------ state
VARIABLES
  pc,        \* per request: the await the coroutine is suspended at
  call,      \* per request: kind of handler and its input: call.data, or
             \* self.entry and the chat log as handed over
  chat_log,  \* per request: chat_log.content (entity)
  todo,      \* per request: the messages still to post
  thread,    \* per request: local `thread` (its id; 0 before creation)
  run,       \* per request: local `run` ([id, status]; id 0 before creation)
  selected,  \* per request: local `last` / `msg` picked from messages.data
  response,  \* per request: local `response` of render_image
  outcome,   \* per request: how the handler ended
  turn,      \* per request: how _async_handle_message ended (entity)
  calls,     \* per request: the provider calls it has made
  threads,   \* provider: thread id -> [created, owner, messages]
  runs,      \* provider: run id -> [created, owner, thread_id, assistant_id, status]
  client,    \* per request: local `client` read from entry.runtime_data
  setup      \* per config entry of the integration: async_setup_entry's
             \* position, the outcome of its check, entry.runtime_data,
             \* whether the platform was forwarded, and how it ended

vars == <<pc, call, chat_log, todo, thread, run, selected, response, outcome,
          turn, calls, threads, runs, client, setup>>

\* openai.AsyncOpenAI(api_key=entry.data[CONF_API_KEY], ...): the handle built
\* for an entry.
ClientOf(e) == "client:" \o e

\* How the two awaited calls of the check may end: without error, with
\* openai.AuthenticationError, or with another openai.OpenAIError.
CheckOutcomes == {"ok", "AuthenticationError", "OpenAIError"}

\* A handle stored whether or not the check succeeded.
StoredHandleAlways(e, exc) == ClientOf(e)

\* entry.runtime_data after the try statement: the assignment is reached only
\* when no except clause has returned or raised.
StoredHandle(e, exc) == IF exc = "ok" THEN ClientOf(e) ELSE None

\* How async_setup_entry ends in an except clause; AuthenticationError is
\* an OpenAIError and its clause comes first.
SetupResult(exc) ==
  IF exc = "ok" THEN "pending"
  ELSE IF exc = "AuthenticationError" THEN "False"
  ELSE "ConfigEntryNotReady"

NotSetUp ==
  [pc |-> "idle", check |-> "pending", runtime_data |-> None,
   forwarded |-> FALSE, result |-> "pending"]
SetUp(e) ==
  [pc |-> "done", check |-> "ok", runtime_data |-> ClientOf(e),
   forwarded |-> TRUE, result |-> "True"]

\* The provider names each thread and each run with a fresh opaque id.  All
\* that matters of an id is that no two objects share one: the thread and the
\* run created by request r are given the id r (0 is no id).
NoThread == [created |-> FALSE, owner |-> 0, messages |-> <<>>]
NoRemoteRun == [created |-> FALSE, owner |-> 0, thread_id |-> 0,
                assistant_id |-> None, status |-> None]
FreshId(r) == r

NoCall == [kind |-> None, entry_id |-> None, prompt |-> None, chat_log |-> <<>>]
NoCalls ==
  [threads_create |-> 0, messages_create |-> <<>>, runs_create |-> <<>>,
   runs_retrieve |-> {}, messages_list |-> <<>>, images_generate |-> 0]
NoRun == [id |-> 0, status |-> None]
NoResponse == [data |-> <<>>]

\* No request has been made.
InitHandlers ==
  /\ pc = [r \in AllReqs |-> "idle"]
  /\ call = [r \in AllReqs |-> NoCall]
  /\ chat_log = [r \in AllReqs |-> <<>>]
  /\ todo = [r \in AllReqs |-> <<>>]
  /\ thread = [r \in AllReqs |-> 0]
  /\ run = [r \in AllReqs |-> NoRun]
  /\ selected = [r \in AllReqs |-> NoMessage]
  /\ response = [r \in AllReqs |-> NoResponse]
  /\ outcome = [r \in AllReqs |-> Pending]
  /\ turn = [r \in AllReqs |-> Pending]
  /\ calls = [r \in AllReqs |-> NoCalls]
  /\ threads = [i \in AllReqs |-> NoThread]
  /\ runs = [i \in AllReqs |-> NoRemoteRun]
  /\ client = [r \in AllReqs |-> None]

\* The integration's entries are set up: the services and the entity answer
\* requests.
Init ==
  /\ InitHandlers
  /\ setup = [e \in OwnEntryIds |-> SetUp(e)]

\* The integration's entries are not yet set up.
InitSetup ==
  /\ InitHandlers
  /\ setup = [e \in OwnEntryIds |-> NotSetUp]

\* ------------------------------------------------------------ provider
\* The thread kept in one slot shared by the handlers: the first one stored.
ThreadOfShared(r) ==
  LET holders == {i \in AllReqs : thread[i] # 0}
  IN  IF holders = {} THEN 0
      ELSE thread[CHOOSE i \in holders : \A j \in holders : i <= j]

\* The ids a handler passes to the provider: its own locals thread.id, run.id.
ThreadOf(r) == thread[r]
RunOf(r) == run[r].id

KnownThread(tid) == tid \in AllReqs /\ threads[tid].created
KnownRun(tid, rid) ==
  rid \in AllReqs /\ runs[rid].created /\ runs[rid].thread_id = tid

\* A string posted as content is stored as one text segment.
ThreadMessage(role, content, at) ==
  [role |-> role, content |-> content, created_at |-> at]
AppendMessages(tid, role, contents) ==
  [threads EXCEPT ![tid].messages =
     @ \o [i \in 1..Len(contents) |->
             ThreadMessage(role, contents[i], Len(@) + i)]]

\* client.beta.threads.messages.list(thread_id=...): no order is passed, so
\* the provider's default applies: newest first.
messages_list(tid) == Reversed(threads[tid].messages)

\* ------------------------------------------------------------ handler steps
\* The handler of request r ends: by return or by raise.  _async_handle_message
\* runs on in the same step when _async_handle_chat_log ends: an exception
\* passes through it, and after a normal return it asserts that the last
\* chat-log entry is the assistant's and answers with its content.
handle_message(o, log) ==
  IF o.state = "raised" THEN o
  ELSE IF log[Len(log)].cls # "AssistantContent" THEN Raised("AssertionError")
  ELSE Returned([speech |-> IF log[Len(log)].content = None THEN ""
                            ELSE log[Len(log)].content])

Finish(r, kind, o, log) ==
  /\ pc' = [pc EXCEPT ![r] = "done"]
  /\ outcome' = [outcome EXCEPT ![r] = o]
  /\ chat_log' = [chat_log EXCEPT ![r] = log]
  /\ turn' = [turn EXCEPT ![r] =
                IF kind = "handle_chat_log" THEN handle_message(o, log)
                ELSE Pending]

Goto(r, label) ==
  /\ pc' = [pc EXCEPT ![r] = label]
  /\ UNCHANGED <<outcome, chat_log, turn>>

\* An exception raised inside the try block ends the handler.
RaiseInTry(r, exc) ==
  Finish(r, call[r].kind, Raised(Reraise(call[r].kind, exc)), chat_log[r])

\* After the thread is there and after each post: the next message's
\* msg["content"] is evaluated and posted, or the run is started.  The
\* service posts call.data[CONF_PROMPT], which the schema requires.
ContinuePosting(r, remaining) ==
  IF remaining = <<>> THEN Goto(r, "runs.create")
  ELSE IF ~HasContentKey(Head(remaining)) THEN RaiseInTry(r, "KeyError")
  ELSE Goto(r, "messages.create")

\* entry.runtime_data: the attribute exists once async_setup_entry has set it;
\* reading it before raises AttributeError.
HasRuntimeData(entry_id) == setup[entry_id].runtime_data # None
runtime_data(entry_id) == setup[entry_id].runtime_data

\* send_prompt up to its first await.
SendPrompt(r, kind, entry_id, prompt) ==
  /\ pc[r] = "idle"
  /\ call' = [call EXCEPT ![r] = [kind |-> kind, entry_id |-> entry_id, prompt |-> prompt,
                              chat_log |-> <<>>]]
  /\ LET entry == async_get_entry(entry_id) IN
       IF InvalidEntry(entry)
       THEN /\ Finish(r, kind, Raised("ServiceValidationError"), chat_log[r])
            /\ UNCHANGED <<todo, client>>
       ELSE IF ~HasRuntimeData(entry_id)
       THEN /\ Finish(r, kind, Raised("AttributeError"), chat_log[r])
            /\ UNCHANGED <<todo, client>>
       ELSE /\ client' = [client EXCEPT ![r] = runtime_data(entry_id)]
            /\ IF FalsyStr(entry.assistant_id)
               THEN Finish(r, kind, Raised("HomeAssistantError"), chat_log[r])
                    /\ UNCHANGED todo
               ELSE /\ Goto(r, "threads.create")
                    /\ todo' = [todo EXCEPT ![r] =
                                  <<EasyInputMessageParam("user", prompt)>>]
  /\ UNCHANGED <<setup, thread, run, selected, response, calls, threads, runs>>

\* _async_handle_chat_log up to its first await.  The entity of an entry is
\* there once the conversation platform has been forwarded for it.
HandleChatLog(r, entry_id, log) ==
  /\ pc[r] = "idle"
  /\ setup[entry_id].forwarded
  /\ call' = [call EXCEPT ![r] = [kind |-> "handle_chat_log", entry_id |-> entry_id,
                              prompt |-> None, chat_log |-> log]]
  /\ IF ~HasRuntimeData(entry_id)
     THEN /\ Finish(r, "handle_chat_log", Raised("AttributeError"), log)
          /\ UNCHANGED <<todo, client>>
     ELSE /\ client' = [client EXCEPT ![r] = runtime_data(entry_id)]
          /\ todo' = [todo EXCEPT ![r] = messages_content(log)]
          /\ IF FalsyStr(async_get_entry(entry_id).assistant_id)
             THEN Finish(r, "handle_chat_log", Raised("HomeAssistantError"), log)
             ELSE /\ pc' = [pc EXCEPT ![r] = "threads.create"]
                  /\ chat_log' = [chat_log EXCEPT ![r] = log]
                  /\ UNCHANGED <<outcome, turn>>
  /\ UNCHANGED <<setup, thread, run, selected, response, calls, threads, runs>>

\* thread = await client.beta.threads.create()
ThreadsCreate(r, ok) ==
  /\ pc[r] = "threads.create"
  /\ calls' = [calls EXCEPT ![r].threads_create = @ + 1]
  /\ UNCHANGED <<client, setup, call, todo, run, selected, response, runs>>
  /\ IF ok
     THEN /\ threads' = [threads EXCEPT ![FreshId(r)] =
                           [created |-> TRUE, owner |-> r, messages |-> <<>>]]
          /\ thread' = [thread EXCEPT ![r] = FreshId(r)]
          /\ ContinuePosting(r, todo[r])
     ELSE /\ RaiseInTry(r, "OpenAIError")
          /\ UNCHANGED <<thread, threads>>

\* await client.beta.threads.messages.create(thread_id=thread.id, role="user",
\*                                           content=...)
MessagesCreate(r, ok) ==
  /\ pc[r] = "messages.create"
  /\ calls' = [calls EXCEPT ![r].messages_create =
                 Append(@, [thread_id |-> ThreadOf(r), role |-> "user",
                            content |-> Head(todo[r]).content])]
  /\ UNCHANGED <<client, setup, call, thread, run, selected, response, runs>>
  /\ IF ok /\ KnownThread(ThreadOf(r))
     THEN /\ threads' = AppendMessages(ThreadOf(r), "user",
                                       <<<<TextPart(Head(todo[r]).content)>>>>)
          /\ todo' = [todo EXCEPT ![r] = Tail(@)]
          /\ ContinuePosting(r, Tail(todo[r]))
     ELSE /\ RaiseInTry(r, "OpenAIError")
          /\ UNCHANGED <<todo, threads>>

\* run = await client.beta.threads.runs.create(thread_id=thread.id,
\*                                             assistant_id=assistant_id)
RunsCreate(r, ok) ==
  /\ pc[r] = "runs.create"
  /\ LET assistant_id == async_get_entry(call[r].entry_id).assistant_id IN
     /\ calls' = [calls EXCEPT ![r].runs_create =
                    Append(@, [thread_id |-> ThreadOf(r), assistant_id |-> assistant_id])]
     /\ IF ok /\ KnownThread(ThreadOf(r))
        THEN /\ runs' = [runs EXCEPT ![FreshId(r)] =
                              [created |-> TRUE, owner |-> r,
                               thread_id |-> ThreadOf(r),
                               assistant_id |-> assistant_id,
                               status |-> "queued"]]
             /\ run' = [run EXCEPT ![r] = [id |-> FreshId(r), status |-> "queued"]]
             /\ Goto(r, "runs.retrieve")
        ELSE /\ RaiseInTry(r, "OpenAIError")
             /\ UNCHANGED <<run, runs>>
  /\ UNCHANGED <<client, setup, call, todo, thread, selected, response, threads>>

\* A poll loop that takes "expired" for the end of a successful run.
PollDecisionExpiredBreaks(status) ==
  IF status \in {"completed", "expired"} THEN "break"
  ELSE IF status \in {"failed", "cancelled"} THEN "raise"
  ELSE "sleep"

\* The branch the poll loop takes on a status: leave the loop, raise, or sleep.
PollDecision(status) ==
  IF status = "completed" THEN "break"
  ELSE IF status \in FailureStatuses THEN "raise"
  ELSE "sleep"

\* run = await client.beta.threads.runs.retrieve(thread_id=thread.id,
\*                                               run_id=run.id)
\* and the loop body up to the sleep.  asyncio.sleep is looked up when the
\* line runs: where the module does not import asyncio, it is a NameError.
RunsRetrieve(r, ok) ==
  /\ pc[r] = "runs.retrieve"
  /\ calls' = [calls EXCEPT ![r].runs_retrieve =
                 @ \cup {[thread_id |-> ThreadOf(r), run_id |-> RunOf(r)]}]
  /\ IF ok /\ KnownRun(ThreadOf(r), RunOf(r))
     THEN LET status == runs[RunOf(r)].status IN
          /\ run' = [run EXCEPT ![r] = [id |-> RunOf(r), status |-> status]]
          /\ CASE PollDecision(status) = "break" -> Goto(r, "messages.list")
               [] PollDecision(status) = "raise" -> RaiseInTry(r, "HomeAssistantError")
               [] OTHER -> IF HasAsyncio(call[r].kind)
                           THEN Goto(r, "sleep")
                           ELSE RaiseInTry(r, "NameError")
     ELSE /\ RaiseInTry(r, "OpenAIError")
          /\ UNCHANGED run
  /\ UNCHANGED <<client, setup, call, todo, thread, selected, response, threads, runs>>

\* await asyncio.sleep(1) returns.
Sleep(r) ==
  /\ pc[r] = "sleep"
  /\ Goto(r, "runs.retrieve")
  /\ UNCHANGED <<client, setup, call, todo, thread, run, selected, response, calls,
                 threads, runs>>

\* What the service returns for the message it picked, or the raise.
ServiceAnswer(r, last) ==
  IF last = NoMessage \/ last.content = <<>>
  THEN RaiseInTry(r, "HomeAssistantError")
  ELSE Finish(r, call[r].kind,
              Returned([text |-> Join(Separator(call[r].kind),
                                      text_parts(last.content))]),
              chat_log[r])

\* The entity's loop: the AI message is added for the message it picked; the
\* method returns None whether or not one was found.
EntityAnswer(r, last) ==
  Finish(r, call[r].kind, Returned(NoValue),
         IF last = NoMessage THEN chat_log[r]
         ELSE Append(chat_log[r],
                     AssistantContent(Join(Separator(call[r].kind),
                                           text_parts(last.content)), <<>>)))

\* messages = await client.beta.threads.messages.list(thread_id=thread.id)
\* and the rest of the handler.
MessagesList(r, ok) ==
  /\ pc[r] = "messages.list"
  /\ calls' = [calls EXCEPT ![r].messages_list = Append(@, ThreadOf(r))]
  /\ IF ok /\ KnownThread(ThreadOf(r))
     THEN LET last == last_message(messages_list(ThreadOf(r))) IN
          /\ selected' = [selected EXCEPT ![r] = last]
          /\ IF call[r].kind \in ServiceKinds
             THEN ServiceAnswer(r, last)
             ELSE EntityAnswer(r, last)
     ELSE /\ RaiseInTry(r, "OpenAIError")
          /\ UNCHANGED selected
  /\ UNCHANGED <<client, setup, call, todo, thread, run, response, threads, runs>>

\* render_image up to its await.
RenderImage(r, kind, entry_id, prompt) ==
  /\ pc[r] = "idle"
  /\ call' = [call EXCEPT ![r] = [kind |-> kind, entry_id |-> entry_id, prompt |-> prompt,
                              chat_log |-> <<>>]]
  /\ IF InvalidEntry(async_get_entry(entry_id))
     THEN /\ Finish(r, kind, Raised("ServiceValidationError"), chat_log[r])
          /\ UNCHANGED client
     ELSE IF ~HasRuntimeData(entry_id)
     THEN /\ Finish(r, kind, Raised("AttributeError"), chat_log[r])
          /\ UNCHANGED client
     ELSE /\ client' = [client EXCEPT ![r] = runtime_data(entry_id)]
          /\ Goto(r, "images.generate")
  /\ UNCHANGED <<setup, todo, thread, run, selected, response, calls, threads, runs>>

\* A render_image that accepts inline data in place of a URL.
ImageAnswerInlineData(data) ==
  IF data = <<>> \/ (FalsyStr(data[1].url) /\ FalsyStr(data[1].b64_json))
  THEN Raised("HomeAssistantError")
  ELSE Returned(model_dump_exclude_b64(data[1]))

\* What render_image does with the response.
ImageAnswer(data) ==
  IF data = <<>> \/ FalsyStr(data[1].url)
  THEN Raised("HomeAssistantError")
  ELSE Returned(model_dump_exclude_b64(data[1]))

\* response = await client.images.generate(...) and the rest of render_image.
ImagesGenerate(r, ok, data) ==
  /\ pc[r] = "images.generate"
  /\ calls' = [calls EXCEPT ![r].images_generate = @ + 1]
  /\ IF ok
     THEN /\ response' = [response EXCEPT ![r] = [data |-> data]]
          /\ Finish(r, call[r].kind, ImageAnswer(data), chat_log[r])
     ELSE /\ Finish(r, call[r].kind, Raised("HomeAssistantError"), chat_log[r])
          /\ UNCHANGED response
  /\ UNCHANGED <<client, setup, call, todo, thread, run, selected, threads, runs>>

\* ------------------------------------------------------------ the remote run
RunProgress(rid) ==
  /\ runs[rid].status = "queued"
  /\ runs' = [runs EXCEPT ![rid].status = "in_progress"]
  /\ UNCHANGED <<client, setup, pc, call, chat_log, todo, thread, run, selected, response,
                 outcome, turn, calls, threads>>

RunFail(rid, status) ==
  /\ runs[rid].status \in {"queued", "in_progress"}
  /\ runs' = [runs EXCEPT ![rid].status = status]
  /\ UNCHANGED <<client, setup, pc, call, chat_log, todo, thread, run, selected, response,
                 outcome, turn, calls, threads>>

\* The run completes, having added its assistant messages to its thread.
RunComplete(rid, replies) ==
  /\ runs[rid].status = "in_progress"
  /\ runs' = [runs EXCEPT ![rid].status = "completed"]
  /\ threads' = AppendMessages(runs[rid].thread_id, "assistant", replies)
  /\ UNCHANGED <<client, setup, pc, call, chat_log, todo, thread, run, selected, response,
                 outcome, turn, calls>>

\* ------------------------------------------------------------ specifications
Await(r) ==
  \/ \E ok \in BOOLEAN : ThreadsCreate(r, ok)
  \/ \E ok \in BOOLEAN : MessagesCreate(r, ok)
  \/ \E ok \in BOOLEAN : RunsCreate(r, ok)
  \/ \E ok \in BOOLEAN : RunsRetrieve(r, ok)
  \/ Sleep(r)
  \/ \E ok \in BOOLEAN : MessagesList(r, ok)

\* The runs the provider holds.
RemoteRuns == {i \in AllReqs : runs[i].created}

\* Every reply a run may give within the bounds.
RunReplies == Replies(MaxReply, MaxParts)

\* One request at a time, over every input.
Next ==
  \/ \E kind \in ServiceKinds, e \in EntryIds : SendPrompt(1, kind, e, "p")
  \/ \E e \in OwnEntryIds, log \in ChatLogs : HandleChatLog(1, e, log)
  \/ \E kind \in ImageKinds, e \in EntryIds : RenderImage(1, kind, e, "p")
  \/ \E ok \in BOOLEAN, data \in ImageData : ImagesGenerate(1, ok, data)
  \/ Await(1)
  \/ \E rid \in RemoteRuns : RunProgress(rid)
  \/ \E rid \in RemoteRuns, status \in FailureStatuses : RunFail(rid, status)
  \/ \E rid \in RemoteRuns, rs \in RunReplies : RunComplete(rid, rs)

Spec == Init /\ [][Next]_vars

\* Several requests in flight on the one client handle.
ConcReplies == {<<<<TextPart("a")>>>>, <<<<TextPart("b")>>>>}
ConcFailures == {"failed"}
ConcLog == <<SystemContent("s"), UserContent("u")>>

NextConc ==
  \/ \E r \in AllReqs, kind \in ServiceKinds : SendPrompt(r, kind, "e_ok", "p")
  \/ \E r \in AllReqs : HandleChatLog(r, "e_ok", ConcLog)
  \/ \E r \in AllReqs : Await(r)
  \/ \E rid \in RemoteRuns : RunProgress(rid)
  \/ \E rid \in RemoteRuns, status \in ConcFailures : RunFail(rid, status)
  \/ \E rid \in RemoteRuns, rs \in ConcReplies : RunComplete(rid, rs)

SpecConc == Init /\ [][NextConc]_vars

\* ---------------------------------------------------------------------------
\* Config-entry setup: async_setup_entry, one action per await.

\* async_setup_entry is called for an entry; the host calls it again later
\* for an entry whose setup raised ConfigEntryNotReady.  The client is built
\* and the try statement entered.
SetupEntry(e) ==
  /\ \/ setup[e].pc = "idle"
     \/ setup[e].pc = "done" /\ setup[e].result = "ConfigEntryNotReady"
  /\ setup' = [setup EXCEPT ![e] =
                [@ EXCEPT !.pc = "platform_headers", !.check = "pending",
                          !.result = "pending"]]
  /\ UNCHANGED <<pc, call, chat_log, todo, thread, run, selected, response,
                 outcome, turn, calls, threads, runs, client>>

\* The statements after the try statement's body ended as exc: an except
\* clause returns False or raises ConfigEntryNotReady, otherwise the handle is
\* stored and the forward awaited.
AfterCheck(e, exc) ==
  [pc |-> IF exc = "ok" THEN "forward" ELSE "done",
   check |-> exc,
   runtime_data |-> StoredHandle(e, exc),
   forwarded |-> FALSE,
   result |-> SetupResult(exc)]

\* await hass.async_add_executor_job(client.platform_headers)
PlatformHeaders(e, exc) ==
  /\ setup[e].pc = "platform_headers"
  /\ setup' = [setup EXCEPT ![e] =
                IF exc = "ok" THEN [@ EXCEPT !.pc = "models.list"]
                ELSE AfterCheck(e, exc)]
  /\ UNCHANGED <<pc, call, chat_log, todo, thread, run, selected, response,
                 outcome, turn, calls, threads, runs, client>>

\* await hass.async_add_executor_job(client.with_options(...).models.list)
ModelsList(e, exc) ==
  /\ setup[e].pc = "models.list"
  /\ setup' = [setup EXCEPT ![e] = AfterCheck(e, exc)]
  /\ UNCHANGED <<pc, call, chat_log, todo, thread, run, selected, response,
                 outcome, turn, calls, threads, runs, client>>

\* await hass.config_entries.async_forward_entry_setups(entry, PLATFORMS);
\* return True
ForwardEntrySetups(e) ==
  /\ setup[e].pc = "forward"
  /\ setup' = [setup EXCEPT ![e] =
                [@ EXCEPT !.pc = "done", !.forwarded = TRUE, !.result = "True"]]
  /\ UNCHANGED <<pc, call, chat_log, todo, thread, run, selected, response,
                 outcome, turn, calls, threads, runs, client>>

\* Entries being set up while one request of any kind, for any entry id, is
\* made and served.
NextSetup ==
  \/ \E e \in OwnEntryIds : SetupEntry(e)
  \/ \E e \in OwnEntryIds, exc \in CheckOutcomes : PlatformHeaders(e, exc)
  \/ \E e \in OwnEntryIds, exc \in CheckOutcomes : ModelsList(e, exc)
  \/ \E e \in OwnEntryIds : ForwardEntrySetups(e)
  \/ \E kind \in ServiceKinds, e \in EntryIds : SendPrompt(1, kind, e, "p")
  \/ \E e \in OwnEntryIds : HandleChatLog(1, e, ConcLog)
  \/ \E kind \in ImageKinds, e \in EntryIds : RenderImage(1, kind, e, "p")
  \/ \E ok \in BOOLEAN : ImagesGenerate(1, ok, <<Image(None, "https://img/1", None)>>)
  \/ Await(1)
  \/ \E rid \in RemoteRuns : RunProgress(rid)
  \/ \E rid \in RemoteRuns, status \in ConcFailures : RunFail(rid, status)
  \/ \E rid \in RemoteRuns, rs \in ConcReplies : RunComplete(rid, rs)

SpecSetup == InitSetup /\ [][NextSetup]_vars

\* ------------------------------------------------------------ properties
Done(r) == pc[r] = "done"
HostError == Raised("HomeAssistantError")
IsAssistantRequest(r) == call[r].kind \in AssistantKinds
IsImageRequest(r) == call[r].kind \in ImageKinds

\* The text segments of a message content run together, in order.
RECURSIVE ConcatTexts(_)
ConcatTexts(parts) ==
  IF parts = <<>> THEN ""
  ELSE (IF Head(parts).type = "text" THEN Head(parts).text ELSE "")
       \o ConcatTexts(Tail(parts))

\* The text segments of a message content, in order, with sep between each
\* two of them; first says that no text segment came before.
RECURSIVE TextsWithBetween(_, _, _)
TextsWithBetween(sep, parts, first) ==
  IF parts = <<>> THEN ""
  ELSE IF Head(parts).type = "text"
       THEN (IF first THEN "" ELSE sep) \o Head(parts).text
            \o TextsWithBetween(sep, Tail(parts), FALSE)
       ELSE TextsWithBetween(sep, Tail(parts), first)

\* The text request r produced from the message it selected, if it produced one.
ProducedText(r) ==
  IF call[r].kind \in ServiceKinds THEN outcome[r].value.text
  ELSE chat_log[r][Len(chat_log[r])].content
HasProducedText(r) ==
  /\ IsAssistantRequest(r)
  /\ outcome[r].state = "returned"
  /\ selected[r] # NoMessage

\* C1 (as stated): whenever a run completed and a text was produced, the text
\* is the text segments of the selected assistant message run together in
\* order, non-text segments skipped, nothing else added.
C1_TextIsConcatenation ==
  \A r \in AllReqs :
    HasProducedText(r) => ProducedText(r) = ConcatTexts(selected[r].content)

\* C1 (amended): the entity's AI message is the text segments run together in
\* order; the text returned by either send_prompt service is the text segments
\* in order with one newline between each two of them; non-text segments are
\* skipped in both.
C1_TextIsJoined ==
  \A r \in AllReqs :
    HasProducedText(r) =>
      /\ run[r].status = "completed"
      /\ ProducedText(r) =
           TextsWithBetween(IF call[r].kind = "handle_chat_log" THEN "" ELSE "\n",
                            selected[r].content, TRUE)

\* A service returned the text of a message of two text segments.
C1_Witness ==
  \E r \in AllReqs :
    /\ call[r].kind \in ServiceKinds
    /\ HasProducedText(r)
    /\ selected[r].content = <<TextPart("a"), TextPart("b")>>
    /\ outcome[r].value = [text |-> "a\nb"]

\* C2: a request whose status check observed failed, cancelled or expired has
\* ended by raising the host error and has made no messages.list call.
C2_FailureRaisesWithoutList ==
  \A r \in AllReqs :
    (calls[r].runs_retrieve # {} /\ run[r].status \in {"failed", "cancelled", "expired"})
      => /\ Done(r)
         /\ outcome[r] = HostError
         /\ calls[r].messages_list = <<>>

\* A status check of the entity's request observed expired.
C2_Witness ==
  \E r \in AllReqs :
    /\ call[r].kind = "handle_chat_log"
    /\ calls[r].runs_retrieve # {}
    /\ run[r].status = "expired"

\* The entry of request r is one of the integration's, with no assistant id.
MissingAssistantId(r) ==
  /\ IsAssistantRequest(r)
  /\ call[r].entry_id \in {"e_noassist", "e_emptyassist"}

\* C3: a request on an entry with a missing or empty assistant id has raised
\* the host error and has made no provider call of any kind.
C3_NoAssistantIdNoRemoteCall ==
  \A r \in AllReqs :
    MissingAssistantId(r) =>
      /\ Done(r)
      /\ outcome[r] = HostError
      /\ calls[r] = NoCalls
      /\ \A i \in AllReqs : threads[i].owner # r /\ runs[i].owner # r

\* The turn handler was asked on an entry whose assistant id is empty.
C3_Witness ==
  \E r \in AllReqs :
    /\ call[r].kind = "handle_chat_log"
    /\ call[r].entry_id = "e_emptyassist"
    /\ Done(r)

\* The first result of the image response has a URL.
HasUrl(data) == data # <<>> /\ data[1].url \notin {None, ""}

\* C4: render_image calls the image endpoint once and never again (a request
\* rejected by the config-entry validation ends before the call); a response
\* with no result, or whose first result has no URL, raises the host error
\* whatever its other fields; otherwise the first result is returned without
\* its b64_json field.
C4_ImageOnceUrlRequired ==
  \A r \in AllReqs :
    IsImageRequest(r) =>
      /\ calls[r].images_generate <= 1
      /\ (Done(r) /\ outcome[r] # Raised("ServiceValidationError"))
           => calls[r].images_generate = 1
      /\ (Done(r) /\ ~HasUrl(response[r].data)) => outcome[r].state = "raised"
      /\ (Done(r) /\ calls[r].images_generate = 1 /\ ~HasUrl(response[r].data))
           => outcome[r] = HostError
      /\ (Done(r) /\ HasUrl(response[r].data))
           => /\ outcome[r].state = "returned"
              /\ DOMAIN outcome[r].value = {"url", "revised_prompt"}
              /\ outcome[r].value.url = response[r].data[1].url
              /\ outcome[r].value.revised_prompt = response[r].data[1].revised_prompt

\* The first result carried inline data and a revised prompt but no URL.
C4_Witness ==
  \E r \in AllReqs :
    /\ IsImageRequest(r)
    /\ Done(r)
    /\ response[r].data # <<>>
    /\ response[r].data[1] = Image("QUJD", None, "rp")

\* C5: a request ends with a normal result, the validation error or the host
\* error and nothing else; an unknown or foreign config-entry id (services)
\* raises the validation error before any provider call.
C5_OnlyHostErrorsEscape ==
  \A r \in AllReqs :
    Done(r) =>
      /\ \/ outcome[r].state = "returned"
         \/ outcome[r] = Raised("ServiceValidationError")
         \/ outcome[r] = HostError
      /\ call[r].entry_id \in {"e_other", "e_unknown"}
           => outcome[r] = Raised("ServiceValidationError") /\ calls[r] = NoCalls

\* The messages of the thread request r created, oldest first.
ThreadMessages(r) == IF thread[r] = 0 THEN <<>> ELSE threads[thread[r]].messages
AssistantMessages(r) ==
  {ThreadMessages(r)[i] : i \in {j \in 1..Len(ThreadMessages(r)) :
                                   ThreadMessages(r)[j].role = "assistant"}}

\* C6: when the run completed and the fetched list holds no assistant message,
\* the request has failed with the host error; the entity's handler has not
\* returned leaving a chat log whose last entry is not the assistant's (the
\* assertion of _async_handle_message holds).
C6_NoAssistantMessageFails ==
  \A r \in AllReqs :
    (/\ IsAssistantRequest(r)
     /\ Done(r)
     /\ calls[r].messages_list # <<>>
     /\ AssistantMessages(r) = {})
      => /\ outcome[r] = HostError
         /\ turn[r] # Raised("AssertionError")

\* C7: the assistant message whose text a request produced is the newest
\* assistant message of its thread.
C7_NewestAssistantSelected ==
  \A r \in AllReqs :
    HasProducedText(r)
      => \A m \in AssistantMessages(r) : m.created_at <= selected[r].created_at

\* C8: the poll loop is left only on completed, failed, cancelled or expired,
\* or when a provider call raises: a request whose last status check returned
\* queued or in_progress is still in the loop, unless it ended with the host
\* error of a provider call; and no request returns a normal result before a
\* status check returned completed.
C8_PollLoopLeftOnTerminalOnly ==
  \A r \in AllReqs :
    IsAssistantRequest(r) =>
      /\ (calls[r].runs_retrieve # {} /\ run[r].status \in {"queued", "in_progress"})
           => \/ pc[r] \in {"sleep", "runs.retrieve"}
              \/ Done(r) /\ outcome[r] = HostError
      /\ outcome[r].state = "returned" => run[r].status = "completed"

\* The parameters of request r's input, in order.
ParamsOf(r) ==
  IF call[r].kind = "handle_chat_log" THEN messages_content(call[r].chat_log)
  ELSE <<EasyInputMessageParam("user", call[r].prompt)>>

\* C9: one thread at most is created, the posts made are the parameters in
\* order, each once, to that thread, and a run is started only after all of
\* them; a request that did not end with the host error has created its one
\* thread, posted every parameter and started its one run.
C9_AllParamsPostedThenOneRun ==
  \A r \in AllReqs :
    (IsAssistantRequest(r) /\ ~MissingAssistantId(r)
       /\ call[r].entry_id \notin {"e_other", "e_unknown"}) =>
      /\ calls[r].threads_create <= 1
      /\ Len(calls[r].runs_create) <= 1
      /\ Len(calls[r].messages_create) <= Len(ParamsOf(r))
      /\ \A i \in 1..Len(calls[r].messages_create) :
           /\ calls[r].messages_create[i].content = ParamsOf(r)[i].content
           /\ calls[r].messages_create[i].thread_id = thread[r]
      /\ calls[r].runs_create # <<>>
           => Len(calls[r].messages_create) = Len(ParamsOf(r))
      /\ (Done(r) /\ outcome[r] # HostError)
           => /\ calls[r].threads_create = 1
              /\ Len(calls[r].messages_create) = Len(ParamsOf(r))
              /\ Len(calls[r].runs_create) = 1

\* The thread ids and run ids request r has passed to the provider.
ThreadIdsUsed(r) ==
  {calls[r].messages_create[i].thread_id : i \in 1..Len(calls[r].messages_create)}
  \cup {calls[r].runs_create[i].thread_id : i \in 1..Len(calls[r].runs_create)}
  \cup {c.thread_id : c \in calls[r].runs_retrieve}
  \cup {calls[r].messages_list[i] : i \in 1..Len(calls[r].messages_list)}
RunIdsUsed(r) == {c.run_id : c \in calls[r].runs_retrieve}

\* The user messages of a thread, oldest first, as the strings posted.
RECURSIVE UserPosts(_)
UserPosts(ms) ==
  IF ms = <<>> THEN <<>>
  ELSE (IF Head(ms).role = "user" THEN <<Head(ms).content[1].text>> ELSE <<>>)
       \o UserPosts(Tail(ms))

\* C10: with several requests in flight, each request creates one thread and
\* one run at most, passes the provider only the thread id and run id it was
\* given for them, each thread holds the posts of its own request only (those
\* the provider accepted), and
\* the message a request used, hence its result, comes from its own thread.
C10_RequestsIsolated ==
  \A r \in AllReqs :
    /\ calls[r].threads_create <= 1
    /\ Len(calls[r].runs_create) <= 1
    /\ \A tid \in ThreadIdsUsed(r) : KnownThread(tid) /\ threads[tid].owner = r
    /\ \A rid \in RunIdsUsed(r) :
         /\ rid \in AllReqs /\ runs[rid].created /\ runs[rid].owner = r
         /\ threads[runs[rid].thread_id].owner = r
    /\ \A tid \in AllReqs :
         (threads[tid].created /\ threads[tid].owner = r) =>
           /\ Len(UserPosts(threads[tid].messages)) <= Len(calls[r].messages_create)
           /\ \A i \in 1..Len(UserPosts(threads[tid].messages)) :
                UserPosts(threads[tid].messages)[i] = calls[r].messages_create[i].content
    /\ selected[r] # NoMessage =>
         \E tid \in AllReqs :
           /\ threads[tid].owner = r
           /\ \E i \in 1..Len(threads[tid].messages) :
                threads[tid].messages[i] = selected[r]
    /\ (outcome[r].state = "returned" /\ call[r].kind \in ServiceKinds) =>
         \E tid \in AllReqs :
           /\ threads[tid].owner = r
           /\ \E i \in 1..Len(threads[tid].messages) :
                /\ threads[tid].messages[i].role = "assistant"
                /\ outcome[r].value.text = ConcatTexts(threads[tid].messages[i].content)

\* Two requests are in flight together, and one has its answer "b" while the
\* other's thread holds the answer "a".
C10_Witness ==
  \E r1, r2 \in AllReqs :
    /\ r1 # r2
    /\ pc[r1] = "messages.list"
    /\ call[r1].kind = "handle_chat_log"
    /\ threads[thread[r1]].messages[Len(threads[thread[r1]].messages)].content
         = <<TextPart("a")>>
    /\ call[r2].kind = "send_prompt_cc"
    /\ outcome[r2] = Returned([text |-> "b"])

\* C11: async_setup_entry stores the handle and forwards the platform only
\* after the check has succeeded, the handle first; a check that raised
\* AuthenticationError ends in False and one that raised another OpenAIError
\* ends in ConfigEntryNotReady, both with no handle stored and no platform
\* forwarded; so every handle a request has read is that of an entry whose
\* check succeeded.
C11_HandleOnlyAfterCheck ==
  /\ \A e \in OwnEntryIds :
       /\ setup[e].runtime_data # None =>
            setup[e].check = "ok" /\ setup[e].runtime_data = ClientOf(e)
       /\ setup[e].forwarded => setup[e].runtime_data # None
       /\ setup[e].result = "True" =>
            setup[e].runtime_data # None /\ setup[e].forwarded
       /\ setup[e].check = "AuthenticationError" =>
            /\ setup[e].result = "False"
            /\ setup[e].runtime_data = None
            /\ ~setup[e].forwarded
       /\ setup[e].check = "OpenAIError" =>
            /\ setup[e].result = "ConfigEntryNotReady"
            /\ setup[e].runtime_data = None
            /\ ~setup[e].forwarded
  /\ \A r \in AllReqs :
       client[r] # None =>
         /\ call[r].entry_id \in OwnEntryIds
         /\ setup[call[r].entry_id].check = "ok"
         /\ client[r] = ClientOf(call[r].entry_id)

\* One entry's check raised AuthenticationError and a request for it ended
\* without a handle, another's raised a different provider error, and a third
\* is set up.
C11_Witness ==
  /\ setup["e_ok"].check = "AuthenticationError"
  /\ setup["e_ok"].result = "False"
  /\ call[1].entry_id = "e_ok"
  /\ Done(1)
  /\ client[1] = None
  /\ setup["e_noassist"].check = "OpenAIError"
  /\ setup["e_noassist"].result = "ConfigEntryNotReady"
  /\ setup["e_emptyassist"].result = "True"

====
